---- MODULE Spec2Model ----
(***************************************************************************)
(* task-subscriber: a tracing Layer (BeeLayer) that sends span lifecycle   *)
(* events over a bounded tokio mpsc channel to a Collector, which keeps    *)
(* per-task statistics and reports them on a fixed tick.                   *)
(*                                                                         *)
(* Two specifications share the Collector's code:                          *)
(*   Spec          the whole system: producers calling BeeLayer::send, the *)
(*                 channel, Collector::run and BeeLayer::run;              *)
(*   SpecCollector Collector::run fed one task's events by an arbitrary    *)
(*                 event source (the channel abstracted away), for the     *)
(*                 claims about Collector::update on long sequences.       *)
(***************************************************************************)
EXTENDS Integers, Sequences, FiniteSets, TLC

(***************************************************************************)
(* Bounds of the model.                                                    *)
(***************************************************************************)
\* mpsc::channel(100) in the source; the model scales the capacity down so
\* that the full queue is reached.
QueueCapacity == 2
\* Number of send calls made over one behaviour of Spec.
MaxSends == 3
\* Caps on the counters of one Task in SpecCollector.
MaxDepth == 2
MaxBusy == 10

Producers == {"p1", "p2"}
\* Span ids.
IDs == {1, 2}
\* Values SystemTime::now() is read as (the wall clock may step back).
Times == {0, 5, 10}

(***************************************************************************)
(* Option<T>: None is the empty set, Some(x) the singleton.                *)
(***************************************************************************)
None == {}
Some(x) == {x}
Unwrap(o) == CHOOSE x \in o : TRUE

(***************************************************************************)
(* event.rs: enum Event                                                    *)
(***************************************************************************)
SpawnEvent(id, time, fields) == [id |-> id, time |-> time, fields |-> fields, kind |-> "Spawn"]
EnterEvent(id, time) == [id |-> id, time |-> time, kind |-> "Enter"]
ExitEvent(id, time) == [id |-> id, time |-> time, kind |-> "Exit"]
CloseEvent(id, time) == [id |-> id, time |-> time, kind |-> "Close"]

EventsOver(ids, times, strs) ==
    {SpawnEvent(i, t, f) : i \in ids, t \in times, f \in strs}
    \cup {EnterEvent(i, t) : i \in ids, t \in times}
    \cup {ExitEvent(i, t) : i \in ids, t \in times}
    \cup {CloseEvent(i, t) : i \in ids, t \in times}

(***************************************************************************)
(* collector.rs: Task, Stats and their Default                             *)
(* current_polls is a u64: it is kept as the representative of its value   *)
(* modulo 2^64 nearest to 0, so -1 stands for 2^64 - 1 (a wrapped          *)
(* counter); +1, -1 and the test against 0 are exact on representatives.   *)
(***************************************************************************)
DefaultStats ==
    [active |-> FALSE, current_polls |-> 0, created_at |-> None,
     first_poll |-> None, last_poll |-> None, closed_at |-> None,
     busy_time |-> 0]

DefaultTask == [fields |-> "", stats |-> DefaultStats]

\* SystemTime::duration_since: Ok(end - start) when start <= end, else Err.
DurationSince(end, start) == IF start <= end THEN Some(end - start) ELSE None

\* Stats::total_time
total_time(stats) ==
    IF stats.closed_at = None \/ stats.created_at = None
    THEN None
    ELSE DurationSince(Unwrap(stats.closed_at), Unwrap(stats.created_at))

\* HashMap::entry(id).or_default()
OrDefault(ts, id) == IF id \in DOMAIN ts THEN ts[id] ELSE DefaultTask

Insert(ts, id, task) == [i \in DOMAIN ts \cup {id} |-> IF i = id THEN task ELSE ts[i]]

Outcome(ts, panicked) == [tasks |-> ts, panic |-> panicked]

(***************************************************************************)
(* Collector::update, one arm of the match per operator.  Each yields the  *)
(* task mapping after the event and whether the call panicked (unwrap of   *)
(* None or Err, or an arithmetic overflow in a build that checks them).    *)
(***************************************************************************)
\* Mutant of UpdateSpawn: the Task is inserted anew (insert, not entry), so
\* a re-Spawn resets its statistics.
UpdateSpawn_ResetsStats(ts, e) ==
    LET stats == [DefaultStats EXCEPT !.created_at = Some(e.time), !.active = TRUE]
    IN  Outcome(Insert(ts, e.id, [fields |-> e.fields, stats |-> stats]), FALSE)

UpdateSpawn(ts, e) ==
    LET entry == OrDefault(ts, e.id)
        stats == [entry.stats EXCEPT !.created_at = Some(e.time), !.active = TRUE]
    IN  Outcome(Insert(ts, e.id, [fields |-> e.fields, stats |-> stats]), FALSE)

\* Mutant of UpdateEnter: first_poll is stamped by every Enter.
UpdateEnter_RestampsFirstPoll(ts, e, checks) ==
    IF e.id \notin DOMAIN ts
    THEN Outcome(ts, TRUE)
    ELSE LET s0 == ts[e.id].stats
             s1 == [s0 EXCEPT !.first_poll = Some(e.time),
                              !.last_poll = IF s0.current_polls = 0
                                            THEN Some(e.time)
                                            ELSE s0.last_poll]
         IN  IF s1.current_polls = -1 /\ checks
             THEN Outcome([ts EXCEPT ![e.id].stats = s1], TRUE)
             ELSE Outcome([ts EXCEPT ![e.id].stats =
                              [s1 EXCEPT !.current_polls = s1.current_polls + 1]],
                          FALSE)

\* Mutant of UpdateEnter: last_poll is stamped by every Enter, nested or not.
UpdateEnter_AlwaysStamps(ts, e, checks) ==
    IF e.id \notin DOMAIN ts
    THEN Outcome(ts, TRUE)
    ELSE LET s0 == ts[e.id].stats
         IN  Outcome([ts EXCEPT ![e.id].stats =
                         [s0 EXCEPT !.last_poll = Some(e.time),
                                    !.first_poll = IF s0.first_poll = None
                                                   THEN Some(e.time)
                                                   ELSE s0.first_poll,
                                    !.current_polls = s0.current_polls + 1]],
                     FALSE)

UpdateEnter(ts, e, checks) ==
    IF e.id \notin DOMAIN ts
    THEN Outcome(ts, TRUE)
    ELSE LET s0 == ts[e.id].stats
             s1 == IF s0.current_polls = 0
                   THEN [s0 EXCEPT !.last_poll = Some(e.time),
                                   !.first_poll = IF s0.first_poll = None
                                                  THEN Some(e.time)
                                                  ELSE s0.first_poll]
                   ELSE s0
         IN  IF s1.current_polls = -1 /\ checks
             THEN Outcome([ts EXCEPT ![e.id].stats = s1], TRUE)
             ELSE Outcome([ts EXCEPT ![e.id].stats =
                              [s1 EXCEPT !.current_polls = s1.current_polls + 1]],
                          FALSE)

\* Mutant of UpdateExit: every Exit accrues the time since last_poll, not only
\* the one that returns current_polls to 0.
UpdateExit_AccruesEachPair(ts, e, checks) ==
    IF e.id \notin DOMAIN ts
    THEN Outcome(ts, TRUE)
    ELSE LET s0 == ts[e.id].stats
         IN  IF s0.current_polls = 0 /\ checks
             THEN Outcome(ts, TRUE)
             ELSE LET s1 == [s0 EXCEPT !.current_polls = s0.current_polls - 1]
                  IN  IF s1.last_poll # None
                      THEN LET d == DurationSince(e.time, Unwrap(s1.last_poll))
                           IN  IF d = None
                               THEN Outcome([ts EXCEPT ![e.id].stats = s1], TRUE)
                               ELSE Outcome([ts EXCEPT ![e.id].stats =
                                                [s1 EXCEPT !.busy_time =
                                                    s1.busy_time + Unwrap(d)]],
                                            FALSE)
                      ELSE Outcome([ts EXCEPT ![e.id].stats = s1], FALSE)

UpdateExit(ts, e, checks) ==
    IF e.id \notin DOMAIN ts
    THEN Outcome(ts, TRUE)
    ELSE LET s0 == ts[e.id].stats
         IN  IF s0.current_polls = 0 /\ checks
             THEN Outcome(ts, TRUE)
             ELSE LET s1 == [s0 EXCEPT !.current_polls = s0.current_polls - 1]
                  IN  IF s1.current_polls = 0 /\ s1.last_poll # None
                      THEN LET d == DurationSince(e.time, Unwrap(s1.last_poll))
                           IN  IF d = None
                               THEN Outcome([ts EXCEPT ![e.id].stats = s1], TRUE)
                               ELSE Outcome([ts EXCEPT ![e.id].stats =
                                                [s1 EXCEPT !.busy_time =
                                                    s1.busy_time + Unwrap(d)]],
                                            FALSE)
                      ELSE Outcome([ts EXCEPT ![e.id].stats = s1], FALSE)

\* Mutant of UpdateClose: closed_at is set but active is left as it was.
UpdateClose_StaysActive(ts, e) ==
    IF e.id \notin DOMAIN ts
    THEN Outcome(ts, TRUE)
    ELSE Outcome([ts EXCEPT ![e.id].stats =
                     [ts[e.id].stats EXCEPT !.closed_at = Some(e.time)]],
                 FALSE)

UpdateClose(ts, e) ==
    IF e.id \notin DOMAIN ts
    THEN Outcome(ts, TRUE)
    ELSE Outcome([ts EXCEPT ![e.id].stats =
                     [ts[e.id].stats EXCEPT !.active = FALSE,
                                            !.closed_at = Some(e.time)]],
                 FALSE)

update(ts, e, checks) ==
    CASE e.kind = "Spawn" -> UpdateSpawn(ts, e)
      [] e.kind = "Enter" -> UpdateEnter(ts, e, checks)
      [] e.kind = "Exit" -> UpdateExit(ts, e, checks)
      [] e.kind = "Close" -> UpdateClose(ts, e)

\* Mutant of produce_metrics: only the active Tasks are reported.
produce_metrics_SkipsInactive(ts) ==
    {[id |-> i, state |-> "running"] : i \in {j \in DOMAIN ts : ts[j].stats.active}}

\* Collector::produce_metrics: the records one report phase emits.
produce_metrics(ts) ==
    {IF ts[i].stats.active
     THEN [id |-> i, state |-> "running"]
     ELSE [id |-> i, state |-> "inactive", total_time |-> total_time(ts[i].stats)]
     : i \in DOMAIN ts}

(***************************************************************************)
(* State.                                                                  *)
(***************************************************************************)
VARIABLES
    driver,          \* "layer": BeeLayer::new built the channel and owns tx and
                     \* the Collector; "direct": the Collector was built with
                     \* Collector::new(rx, ..) and its run was started by the
                     \* caller, who owns the Sender
    overflow_checks, \* whether the build panics on integer overflow (debug) or
                     \* wraps (release)
    queue,           \* the channel's messages, oldest first
    reserved,        \* per producer: the message it holds a Permit for, with
                     \* the number of the send call and the producer
    tx_alive,        \* some Sender of the channel is alive
    rx_alive,        \* the Receiver is alive
    pc,              \* position of Collector::run
    tasks,           \* Collector.tasks
    run_state,       \* the future BeeLayer::run returns
    report,          \* the records of the latest produce_metrics
    sent,            \* history: number of send calls so far
    send_result,     \* history: how the latest send call ended
    discarded,       \* history: messages dropped unreceived with the Receiver
    delivered,       \* history: the send numbers the Collector received, in order
    obs,             \* history of the events SpecCollector applied to Task 1
    last_drain       \* history of the current tick: while draining, "empty"
                     \* or "applied" (an event was applied since the latest
                     \* report); after the report, "reported" when the drain
                     \* had applied events and "idle" when it had received
                     \* none ("none": no tick yet)

vars == <<driver, overflow_checks, queue, reserved, tx_alive, rx_alive, pc, tasks,
          run_state, report, sent, send_result, discarded, delivered, obs, last_drain>>

NoPermit == [n |-> 0]
EmptyTasks == [i \in {} |-> DefaultTask]

\* Values of SystemTime::now() and of the formatted fields in Spec.
SysTimes == {0}
SysFields == {"a"}

\* Slots of the channel's semaphore that are neither queued nor reserved.
FreePermits ==
    QueueCapacity - Len(queue) - Cardinality({p \in Producers : reserved[p] # NoPermit})

AllIdle == \A p \in Producers : reserved[p] = NoPermit

\* The Task the sequence properties follow.
Obs == CHOOSE i \in IDs : \A j \in IDs : i <= j

InitObs ==
    [phase |-> "empty", nest |-> 0, mono |-> TRUE, last |-> 0,
     shape |-> 0, spawn_at |-> 0, enter_at |-> 0, exit_at |-> 0,
     k |-> 0, t1 |-> 0, busy0 |-> 0, late |-> FALSE]

InitCommon ==
    /\ overflow_checks \in BOOLEAN
    /\ queue = <<>>
    /\ reserved = [p \in Producers |-> NoPermit]
    /\ tx_alive = TRUE
    /\ rx_alive = TRUE
    /\ tasks = EmptyTasks
    /\ report = {}
    /\ sent = 0
    /\ send_result = "none"
    /\ discarded = 0
    /\ delivered = <<>>
    /\ obs = InitObs
    /\ last_drain = "none"

\* BeeLayer::new: the layer holds tx and Some(collector); nothing runs yet.
InitLayer ==
    /\ driver = "layer"
    /\ pc = "unspawned"
    /\ run_state = "notcalled"

\* Collector::new(rx, interval) followed by its run, started by the caller.
InitDirect ==
    /\ driver = "direct"
    /\ pc = "tick"
    /\ run_state = "none"

Init == InitCommon /\ (InitLayer \/ InitDirect)

(***************************************************************************)
(* BeeLayer::send.  try_reserve either takes a slot of the semaphore, or   *)
(* fails with Closed (the Receiver is gone) or Full; the Permit is then    *)
(* used to push the event.                                                 *)
(***************************************************************************)
CanCall(p) == tx_alive /\ reserved[p] = NoPermit /\ sent < MaxSends

\* try_reserve() is Ok(permit).
SendReserve(p, e) ==
    /\ CanCall(p)
    /\ rx_alive
    /\ FreePermits > 0
    /\ reserved' = [reserved EXCEPT ![p] = [n |-> sent + 1, ev |-> e, by |-> p]]
    /\ sent' = sent + 1
    /\ send_result' = "permit"
    /\ UNCHANGED <<driver, overflow_checks, queue, tx_alive, rx_alive, pc, tasks,
                   run_state, report, discarded, delivered, obs, last_drain>>

\* Mutant of SendClosed: the Closed error is ignored and the event is handed
\* to a Permit all the same.
SendClosed_Pushes(p, e) ==
    /\ CanCall(p)
    /\ ~rx_alive
    /\ reserved' = [reserved EXCEPT ![p] = [n |-> sent + 1, ev |-> e, by |-> p]]
    /\ sent' = sent + 1
    /\ send_result' = "permit"
    /\ UNCHANGED <<driver, overflow_checks, queue, tx_alive, rx_alive, pc, tasks,
                   run_state, report, discarded, delivered, obs, last_drain>>

\* try_reserve() is Err(Closed): error!("Receiver terminated").
SendClosed(p, e) ==
    /\ CanCall(p)
    /\ ~rx_alive
    /\ sent' = sent + 1
    /\ send_result' = "closed"
    /\ UNCHANGED <<driver, overflow_checks, queue, reserved, tx_alive, rx_alive, pc,
                   tasks, run_state, report, discarded, delivered, obs, last_drain>>

\* Mutant of SendFull: the call waits for a slot, as tx.send(event).await
\* would, instead of giving up.
SendFull_Waits(p, e) ==
    /\ CanCall(p)
    /\ rx_alive
    /\ FreePermits <= 0
    /\ FALSE
    /\ UNCHANGED vars

\* try_reserve() is Err(Full): error!("Unknown error").
SendFull(p, e) ==
    /\ CanCall(p)
    /\ rx_alive
    /\ FreePermits <= 0
    /\ sent' = sent + 1
    /\ send_result' = "full"
    /\ UNCHANGED <<driver, overflow_checks, queue, reserved, tx_alive, rx_alive, pc,
                   tasks, run_state, report, discarded, delivered, obs, last_drain>>

send(p, e) == SendReserve(p, e) \/ SendFull(p, e) \/ SendClosed(p, e)

\* Mutant of PermitSend: the message is pushed at the head of the queue.
PermitSend_PushesAtHead(p) ==
    /\ reserved[p] # NoPermit
    /\ reserved' = [reserved EXCEPT ![p] = NoPermit]
    /\ queue' = IF rx_alive THEN <<reserved[p]>> \o queue ELSE queue
    /\ discarded' = IF rx_alive THEN discarded ELSE discarded + 1
    /\ UNCHANGED <<driver, overflow_checks, tx_alive, rx_alive, pc, tasks, run_state,
                   report, sent, send_result, delivered, obs, last_drain>>

\* permit.send(event): the message goes to the tail of the queue; a message
\* pushed after the Receiver was dropped is never received.
PermitSend(p) ==
    /\ reserved[p] # NoPermit
    /\ reserved' = [reserved EXCEPT ![p] = NoPermit]
    /\ queue' = IF rx_alive THEN Append(queue, reserved[p]) ELSE queue
    /\ discarded' = IF rx_alive THEN discarded ELSE discarded + 1
    /\ UNCHANGED <<driver, overflow_checks, tx_alive, rx_alive, pc, tasks, run_state,
                   report, sent, send_result, delivered, obs, last_drain>>

(***************************************************************************)
(* The Layer hooks: each stamps SystemTime::now() and calls send.          *)
(***************************************************************************)
new_span(p, id) == \E t \in SysTimes, f \in SysFields : send(p, SpawnEvent(id, t, f))
on_enter(p, id) == \E t \in SysTimes : send(p, EnterEvent(id, t))
on_exit(p, id) == \E t \in SysTimes : send(p, ExitEvent(id, t))
on_close(p, id) == \E t \in SysTimes : send(p, CloseEvent(id, t))

\* The owner of the Sender drops it (only a caller who built the channel
\* itself can: BeeLayer keeps tx for as long as the layer or its run exists).
DropSender ==
    /\ driver = "direct"
    /\ tx_alive
    /\ AllIdle
    /\ tx_alive' = FALSE
    /\ UNCHANGED <<driver, overflow_checks, queue, reserved, rx_alive, pc, tasks,
                   run_state, report, sent, send_result, discarded, delivered, obs, last_drain>>

(***************************************************************************)
(* Collector::run                                                          *)
(***************************************************************************)
\* flush.tick().await completes.
Tick ==
    /\ pc = "tick"
    /\ pc' = "drain"
    /\ last_drain' = "empty"
    /\ UNCHANGED <<driver, overflow_checks, queue, reserved, tx_alive, rx_alive, tasks,
                   run_state, report, sent, send_result, discarded, delivered, obs>>

\* recv().now_or_never() is Some(Some(event)): update(event).  A panic unwinds
\* the Collector: the Receiver is dropped and with it the queued messages.
RecvEvent ==
    /\ pc = "drain"
    /\ queue # <<>>
    /\ LET msg == Head(queue)
           out == update(tasks, msg.ev, overflow_checks)
       IN  /\ tasks' = out.tasks
           /\ delivered' = Append(delivered, msg.n)
           /\ last_drain' = "applied"
           /\ IF out.panic
              THEN /\ pc' = "panicked"
                   /\ rx_alive' = FALSE
                   /\ queue' = <<>>
                   /\ discarded' = discarded + Len(queue) - 1
              ELSE /\ pc' = "drain"
                   /\ rx_alive' = rx_alive
                   /\ queue' = Tail(queue)
                   /\ discarded' = discarded
    /\ UNCHANGED <<driver, overflow_checks, reserved, tx_alive, run_state, report,
                   sent, send_result, obs>>

\* Mutant of RecvPending: the report evicts the Tasks it found closed.
RecvPending_EvictsClosed ==
    /\ pc = "drain"
    /\ queue = <<>>
    /\ tx_alive
    /\ report' = produce_metrics(tasks)
    /\ tasks' = [i \in {j \in DOMAIN tasks : tasks[j].stats.closed_at = None} |-> tasks[i]]
    /\ last_drain' = IF last_drain = "applied" THEN "reported" ELSE "idle"
    /\ pc' = "tick"
    /\ UNCHANGED <<driver, overflow_checks, queue, reserved, tx_alive, rx_alive,
                   run_state, sent, send_result, discarded, delivered, obs>>

\* recv().now_or_never() is None (empty, not closed): the drain loop ends and
\* produce_metrics runs before the next tick is awaited.
RecvPending ==
    /\ pc = "drain"
    /\ queue = <<>>
    /\ tx_alive
    /\ report' = produce_metrics(tasks)
    /\ last_drain' = IF last_drain = "applied" THEN "reported" ELSE "idle"
    /\ pc' = "tick"
    /\ UNCHANGED <<driver, overflow_checks, queue, reserved, tx_alive, rx_alive, tasks,
                   run_state, sent, send_result, discarded, delivered, obs>>

\* recv().now_or_never() is Some(None) (every Sender dropped, queue empty):
\* run returns at once.
RecvClosed ==
    /\ pc = "drain"
    /\ queue = <<>>
    /\ ~tx_alive
    /\ pc' = "returned"
    /\ rx_alive' = FALSE
    /\ UNCHANGED <<driver, overflow_checks, queue, reserved, tx_alive, tasks, run_state,
                   report, sent, send_result, discarded, delivered, obs, last_drain>>

(***************************************************************************)
(* BeeLayer::run                                                           *)
(***************************************************************************)
\* self.collector.expect(..) and tokio::spawn of Collector::run.
RunSpawn ==
    /\ driver = "layer"
    /\ run_state = "notcalled"
    /\ run_state' = "pending"
    /\ pc' = "tick"
    /\ UNCHANGED <<driver, overflow_checks, queue, reserved, tx_alive, rx_alive, tasks,
                   report, sent, send_result, discarded, delivered, obs, last_drain>>

\* Mutant of JoinResult: the JoinError is swallowed (res.ok(); Ok(())).
JoinResult_Ok(collector_pc) == "ok"

\* The JoinHandle resolves: Ok(()) when the task returned, Err(JoinError) when
\* it panicked.
JoinResult(collector_pc) == IF collector_pc = "returned" THEN "ok" ELSE "err"

\* Mutant of RunComplete: the JoinHandle is not awaited (the spawned task is
\* detached and run returns at once).
RunComplete_NoAwait ==
    /\ run_state = "pending"
    /\ AllIdle
    /\ run_state' = JoinResult("returned")
    /\ tx_alive' = FALSE
    /\ UNCHANGED <<driver, overflow_checks, queue, reserved, rx_alive, pc, tasks,
                   report, sent, send_result, discarded, delivered, obs, last_drain>>

\* collector.await resumes, the result is mapped and self (with self.tx) is
\* dropped as run's scope ends.
RunComplete ==
    /\ run_state = "pending"
    /\ pc \in {"returned", "panicked"}
    /\ AllIdle
    /\ run_state' = JoinResult(pc)
    /\ tx_alive' = FALSE
    /\ UNCHANGED <<driver, overflow_checks, queue, reserved, rx_alive, pc, tasks,
                   report, sent, send_result, discarded, delivered, obs, last_drain>>

Next ==
    \/ \E p \in Producers, id \in IDs :
          new_span(p, id) \/ on_enter(p, id) \/ on_exit(p, id) \/ on_close(p, id)
    \/ \E p \in Producers : PermitSend(p)
    \/ DropSender
    \/ Tick
    \/ RecvEvent
    \/ RecvPending
    \/ RecvClosed
    \/ RunSpawn
    \/ RunComplete

Spec == Init /\ [][Next]_vars

\* The tokio runtime keeps polling the spawned Collector and the run future,
\* the interval keeps firing, and a producer inside send finishes the call.
Fairness ==
    /\ WF_vars(Tick)
    /\ WF_vars(RecvEvent)
    /\ WF_vars(RecvPending)
    /\ WF_vars(RecvClosed)
    /\ WF_vars(RunComplete)
    /\ \A p \in Producers : WF_vars(PermitSend(p))

FairSpec == Spec /\ Fairness

(***************************************************************************)
(* SpecCollector: Collector::run receiving the events of Task 1 from an    *)
(* arbitrary source.  Deliver(e) is a send of e followed at once by the    *)
(* recv that yields it; update touches no other Task's entry, so the other *)
(* ids are left out.  The history obs records, independently of the Task:  *)
(*   phase, nest  whether the events so far are well formed (one Spawn,    *)
(*                then nested Enter/Exit, then at most one final Close);   *)
(*   mono, last   whether their timestamps never decreased, and the last;  *)
(*   shape, ..    how far they spell exactly Spawn, Enter, Exit, Close,    *)
(*                with the times of the first three;                       *)
(*   k, t1, busy0 how far the latest events spell Enter, Enter, Exit, Exit *)
(*                from an idle Task, with the first Enter's time and the   *)
(*                busy_time before it;                                     *)
(*   late         whether a Spawn came after the Task's first Enter, or an *)
(*                Enter found the Task idle after its Close.               *)
(***************************************************************************)
ObsEvents == EventsOver({Obs}, Times, {"a"})

ObsPhase(e) ==
    CASE obs.phase = "empty" /\ e.kind = "Spawn" -> "open"
      [] obs.phase = "open" /\ e.kind = "Enter" -> "open"
      [] obs.phase = "open" /\ e.kind = "Exit" /\ obs.nest > 0 -> "open"
      [] obs.phase = "open" /\ e.kind = "Close" /\ obs.nest = 0 -> "closed"
      [] OTHER -> "bad"

ObsNest(e) ==
    CASE ObsPhase(e) = "bad" -> 0
      [] e.kind = "Enter" -> obs.nest + 1
      [] e.kind = "Exit" -> obs.nest - 1
      [] OTHER -> obs.nest

ObsShape(e) ==
    CASE obs.shape = 0 /\ e.kind = "Spawn" -> 1
      [] obs.shape = 1 /\ e.kind = "Enter" -> 2
      [] obs.shape = 2 /\ e.kind = "Exit" -> 3
      [] obs.shape = 3 /\ e.kind = "Close" -> 4
      [] OTHER -> -1

\* Progress of Enter, Enter, Exit, Exit; an Enter that finds the Task idle
\* starts it.
ObsK(e, ts) ==
    CASE e.kind = "Enter" /\ Obs \in DOMAIN ts /\ ts[Obs].stats.current_polls = 0 -> 1
      [] obs.k = 1 /\ e.kind = "Enter" -> 2
      [] obs.k = 2 /\ e.kind = "Exit" -> 3
      [] obs.k = 3 /\ e.kind = "Exit" -> 4
      [] OTHER -> 0

\* A Spawn applied after the Task's first Enter, or an Enter that finds the
\* Task idle after its Close.
ObsLate(e, ts) ==
    /\ Obs \in DOMAIN ts
    /\ \/ e.kind = "Spawn" /\ ts[Obs].stats.first_poll # None
       \/ /\ e.kind = "Enter"
          /\ ts[Obs].stats.current_polls = 0
          /\ ts[Obs].stats.closed_at # None

Observe(e, ts) ==
    LET shape == ObsShape(e)
        k == ObsK(e, ts)
    IN  [phase |-> ObsPhase(e),
         nest |-> ObsNest(e),
         mono |-> obs.mono /\ obs.last <= e.time,
         last |-> e.time,
         shape |-> shape,
         spawn_at |-> IF shape = 1 THEN e.time ELSE IF shape > 1 THEN obs.spawn_at ELSE 0,
         enter_at |-> IF shape = 2 THEN e.time ELSE IF shape > 2 THEN obs.enter_at ELSE 0,
         exit_at |-> IF shape = 3 THEN e.time ELSE IF shape > 3 THEN obs.exit_at ELSE 0,
         k |-> k,
         t1 |-> IF k = 1 THEN e.time ELSE IF k > 1 THEN obs.t1 ELSE 0,
         busy0 |-> IF k = 1 THEN ts[Obs].stats.busy_time
                   ELSE IF k > 1 THEN obs.busy0 ELSE 0,
         late |-> obs.late \/ ObsLate(e, ts)]

\* The counters of the model stay within its caps.
WithinCaps(ts) ==
    \A i \in DOMAIN ts :
        /\ ts[i].stats.current_polls \in (0 - MaxDepth)..MaxDepth
        /\ ts[i].stats.busy_time <= MaxBusy

Deliver(e) ==
    /\ pc = "drain"
    /\ rx_alive
    /\ LET out == update(tasks, e, overflow_checks)
       IN  /\ WithinCaps(out.tasks)
           /\ tasks' = out.tasks
           /\ obs' = Observe(e, tasks)
           /\ last_drain' = "applied"
           /\ pc' = IF out.panic THEN "panicked" ELSE "drain"
           /\ rx_alive' = ~out.panic
    /\ UNCHANGED <<driver, overflow_checks, queue, reserved, tx_alive, run_state,
                   report, sent, send_result, discarded, delivered>>

InitCollector == InitCommon /\ InitDirect

NextCollector ==
    \/ Tick
    \/ \E e \in ObsEvents : Deliver(e)
    \/ RecvPending

SpecCollector == InitCollector /\ [][NextCollector]_vars

(***************************************************************************)
(* Steps, as seen from a pair of states.                                   *)
(***************************************************************************)
\* The Collector takes a message off the queue and applies it.
RecvStep == Len(delivered') = Len(delivered) + 1

\* A producer calls send.
SendStep == sent' = sent + 1

\* Collector::run has ended, by its return or by a panic.
Terminated == pc \in {"returned", "panicked"}

(***************************************************************************)
(* C1.  An Enter, Exit or Close whose id has no Task on record is skipped: *)
(* the task mapping is left as it was (no Task created, none changed) and  *)
(* the Collector stays in its loop, still draining.                        *)
(***************************************************************************)
UnknownId(e) == e.kind # "Spawn" /\ e.id \notin DOMAIN tasks

C1_UnknownIdSkipped ==
    [][(RecvStep /\ UnknownId(Head(queue).ev))
          => (tasks' = tasks /\ pc' = "drain" /\ rx_alive')]_vars

(***************************************************************************)
(* C2.  send never blocks: a producer that may call it can always take the *)
(* step, and one holding a Permit can always push.  With a free slot the   *)
(* call gets the slot and its event goes to the tail of the queue; with no *)
(* free slot the event is dropped, queue and Permits stay as they were and *)
(* the producer is free to call again; no message is received twice.       *)
(***************************************************************************)
NeverBlocks ==
    \A p \in Producers :
        /\ CanCall(p) => \A e \in EventsOver(IDs, SysTimes, SysFields) : ENABLED send(p, e)
        /\ reserved[p] # NoPermit => ENABLED PermitSend(p)

AtMostOnce ==
    /\ \A i, j \in 1..Len(delivered) : delivered[i] = delivered[j] => i = j
    /\ \A i \in 1..Len(delivered) : delivered[i] \in 1..sent

SendOutcome ==
    SendStep =>
        /\ (rx_alive /\ FreePermits > 0) =>
              /\ send_result' = "permit"
              /\ \E p \in Producers :
                    /\ reserved[p] = NoPermit
                    /\ reserved'[p].n = sent'
                    /\ reserved' = [reserved EXCEPT ![p] = reserved'[p]]
              /\ queue' = queue
        /\ (rx_alive /\ Len(queue) = QueueCapacity) => FreePermits = 0
        /\ (rx_alive /\ FreePermits = 0) =>
              /\ send_result' = "full"
              /\ queue' = queue
              /\ reserved' = reserved

PushedAtTail ==
    \A p \in Producers :
        (reserved[p] # NoPermit /\ reserved'[p] = NoPermit /\ rx_alive)
            => queue' = Append(queue, reserved[p])

C2_SendNeverBlocks ==
    /\ [](NeverBlocks /\ AtMostOnce)
    /\ [][SendOutcome /\ PushedAtTail]_vars

\* The queue is full, the latest send found it so and dropped its event.
C2_Witness ==
    /\ send_result = "full"
    /\ Len(queue) = QueueCapacity
    /\ AllIdle

(***************************************************************************)
(* C3.  Once the Receiver is gone it stays gone (no reconnect), and every  *)
(* send called from then on ends with the Closed error, leaves queue and   *)
(* Permits as they were, and never blocks: the producer may call again.    *)
(***************************************************************************)
ClosedSendDrops ==
    (SendStep /\ ~rx_alive) =>
        /\ send_result' = "closed"
        /\ queue' = queue
        /\ reserved' = reserved
        /\ pc' = pc

NoReconnect == ~rx_alive => ~rx_alive'

C3_ClosedSendsDrop ==
    /\ [][ClosedSendDrops /\ NoReconnect]_vars
    /\ [](~rx_alive => NeverBlocks)

\* The Collector is gone and a send made after that was refused, twice over.
C3_Witness ==
    /\ ~rx_alive
    /\ tx_alive
    /\ send_result = "closed"
    /\ sent - Len(delivered) >= 2

(***************************************************************************)
(* C4.  Collector::run ends only by returning on a queue that is closed    *)
(* (every Sender dropped) and empty, with every message that was enqueued  *)
(* applied and none discarded; and once every Sender is dropped it         *)
(* eventually ends.                                                        *)
(***************************************************************************)
EndsOnlyClosedAndDrained ==
    (~Terminated /\ Terminated') => (~tx_alive /\ queue = <<>> /\ pc' = "returned")

C4_DrainsThenTerminates ==
    /\ [][EndsOnlyClosedAndDrained]_vars
    /\ [](Terminated => discarded = 0)
    /\ (~tx_alive ~> Terminated)

(***************************************************************************)
(* C5.  BeeLayer::run spawns the Collector loop; its future completes only *)
(* after the loop has ended, with Ok exactly when the loop returned (which *)
(* it does only on a closed and empty queue), and once the loop has ended  *)
(* it eventually completes.                                                *)
(***************************************************************************)
RunCompleted == run_state \in {"ok", "err"}

SpawnsLoop ==
    (run_state = "notcalled" /\ run_state' = "pending") => (pc = "unspawned" /\ pc' = "tick")

ReturnsOnlyClosedAndDrained ==
    (pc # "returned" /\ pc' = "returned") => (~tx_alive /\ queue = <<>>)

C6_PanicSurfacedAsErr ==
    /\ [](pc = "panicked" => run_state # "ok")
    /\ [](run_state = "err" => pc = "panicked")
    /\ ((pc = "panicked" /\ run_state = "pending") ~> run_state = "err")
    /\ [](pc = "panicked" => NeverBlocks)
    /\ [][(pc = "panicked" /\ SendStep) => (send_result' = "closed" /\ reserved' = reserved)]_vars

\* The Collector panicked, a producer's later send returned, and run gave Err.
C6_Witness ==
    /\ driver = "layer"
    /\ pc = "panicked"
    /\ run_state = "err"
    /\ send_result = "closed"

(***************************************************************************)
(* The Task the histories of SpecCollector follow.                         *)
(***************************************************************************)
ObsStats == tasks[Obs].stats

Running(i) == [id |-> i, state |-> "running"]
Inactive(i, total) == [id |-> i, state |-> "inactive", total_time |-> total]

(***************************************************************************)
(* C7.  After exactly Spawn, Enter, Exit the report of the tick shows the  *)
(* Task running.  After exactly Spawn, Enter, Exit, Close (Close not       *)
(* earlier than Spawn, so that the lifetime is a duration) the Task is     *)
(* inactive, busy_time is Exit.time - Enter.time, total_time is            *)
(* Close.time - Spawn.time, and the report of the tick shows the Task      *)
(* inactive with that total_time.                                          *)
(***************************************************************************)
C7_SingleTaskSequence ==
    /\ (obs.shape = 3 /\ pc = "tick") => Running(Obs) \in report
    /\ (obs.shape = 4 /\ obs.spawn_at <= obs.last) =>
          /\ pc # "panicked"
          /\ ~ObsStats.active
          /\ ObsStats.busy_time = obs.exit_at - obs.enter_at
          /\ total_time(ObsStats) = Some(obs.last - obs.spawn_at)
          /\ pc = "tick" => report = {Inactive(Obs, Some(obs.last - obs.spawn_at))}

\* Spawn(1,0), Enter(1,0), Exit(1,5), Close(1,10) applied and reported.
C7_Witness ==
    /\ obs.shape = 4
    /\ obs.spawn_at = 0 /\ obs.enter_at = 0 /\ obs.exit_at = 5 /\ obs.last = 10
    /\ pc = "tick"
    /\ report = {Inactive(Obs, Some(10))}
    /\ ObsStats.busy_time = 5

(***************************************************************************)
(* C8.  For every Task, total_time is defined exactly when created_at and  *)
(* closed_at are both set, and is then closed_at - created_at.             *)
(***************************************************************************)
C8_TotalTimeDefinedIffBothSet ==
    \A i \in DOMAIN tasks :
        LET s == tasks[i].stats
        IN  /\ total_time(s) # None <=> (s.created_at # None /\ s.closed_at # None)
            /\ total_time(s) # None =>
                  Unwrap(total_time(s)) = Unwrap(s.closed_at) - Unwrap(s.created_at)

(***************************************************************************)
(* C9.  As stated: while the events of the Task are well formed (one       *)
(* Spawn, nested Enter/Exit pairs, at most a final Close), busy_time >= 0  *)
(* and, once closed, busy_time <= total_time (where total_time is          *)
(* defined; C8 is about where it is not).                                  *)
(***************************************************************************)
WellFormed == obs.phase \in {"open", "closed"}

C9_BusyBoundedAsStated ==
    WellFormed =>
        /\ ObsStats.busy_time >= 0
        /\ (obs.phase = "closed" /\ total_time(ObsStats) # None) =>
              ObsStats.busy_time <= Unwrap(total_time(ObsStats))

(***************************************************************************)
(* C9, amended.  While the events of the Task are well formed and their    *)
(* timestamps never decrease in receive order, the Collector has not       *)
(* panicked, busy_time >= 0 and, once closed, total_time is defined and    *)
(* busy_time <= total_time.                                                *)
(***************************************************************************)
C9_BusyBoundedMonotone ==
    (WellFormed /\ obs.mono) =>
        /\ pc # "panicked"
        /\ ObsStats.busy_time >= 0
        /\ obs.phase = "closed" =>
              /\ total_time(ObsStats) # None
              /\ ObsStats.busy_time <= Unwrap(total_time(ObsStats))

\* A well-formed, monotone, closed sequence that was busy for its whole
\* lifetime.
C9_Witness ==
    /\ obs.phase = "closed"
    /\ obs.mono
    /\ obs.k = 0
    /\ ObsStats.busy_time = 10
    /\ total_time(ObsStats) = Some(10)

(***************************************************************************)
(* C10.  From an idle Task, Enter(t1), Enter(t2), Exit(t3), Exit(t4) takes *)
(* current_polls to 1, 2, 1, 0; last_poll is t1 throughout (the nested     *)
(* Enter does not stamp it); busy_time is unchanged until the last Exit,   *)
(* which adds t4 - t1 (for t1 <= t4, where that span is a duration).       *)
(***************************************************************************)
C10_NestedEnters ==
    /\ obs.k \in {1, 2, 3} =>
          /\ pc # "panicked"
          /\ ObsStats.current_polls = (IF obs.k = 2 THEN 2 ELSE 1)
          /\ ObsStats.last_poll = Some(obs.t1)
          /\ ObsStats.busy_time = obs.busy0
    /\ (obs.k = 4 /\ obs.t1 <= obs.last) =>
          /\ pc # "panicked"
          /\ ObsStats.current_polls = 0
          /\ ObsStats.last_poll = Some(obs.t1)
          /\ ObsStats.busy_time = obs.busy0 + (obs.last - obs.t1)

\* The nested sequence ran from t1 = 5 to t4 = 10 on a Task that had already
\* been busy for 5.
C10_Witness ==
    /\ obs.k = 4
    /\ obs.t1 = 5
    /\ obs.last = 10
    /\ obs.busy0 = 5
    /\ ObsStats.busy_time = 10

(***************************************************************************)
(* C11.  Every Task's statistics carry a poll count; a Task starts with    *)
(* the count at 0, an Enter that finds the Task idle (current_polls 0 to   *)
(* 1) adds one to it, and no other event, a nested Enter included, changes *)
(* it.                                                                     *)
(***************************************************************************)
\* The idle-to-running counter of a Stats record, when the record has one.
poll_count(stats) == IF "polls" \in DOMAIN stats THEN Some(stats.polls) ELSE None

IdleEnter(i) ==
    /\ i \in DOMAIN tasks
    /\ tasks[i].stats.current_polls = 0
    /\ tasks'[i].stats.current_polls = 1

C11_PollCountCountsIdleEnters ==
    [][\A i \in DOMAIN tasks' :
          LET before == poll_count(OrDefault(tasks, i).stats)
              after == poll_count(tasks'[i].stats)
          IN  /\ after # None
              /\ i \notin DOMAIN tasks => after = Some(0)
              /\ (i \in DOMAIN tasks /\ before # None) =>
                    after = Some(Unwrap(before) + (IF IdleEnter(i) THEN 1 ELSE 0))]_vars

(***************************************************************************)
(* C12.  The report of a tick holds exactly one record for each Task of    *)
(* the mapping and none for any other id: the running record when the Task *)
(* is active, otherwise the inactive record with the Task's total_time,    *)
(* which is None when created_at or closed_at is missing.                  *)
(***************************************************************************)
RecordsOf(i) == {r \in report : r.id = i}

C12_OneRecordPerTask ==
    pc = "tick" =>
        /\ \A r \in report : r.id \in DOMAIN tasks
        /\ \A i \in DOMAIN tasks :
              \E r \in report :
                 /\ RecordsOf(i) = {r}
                 /\ tasks[i].stats.active => r = Running(i)
                 /\ ~tasks[i].stats.active =>
                       /\ r.state = "inactive"
                       /\ DOMAIN r = {"id", "state", "total_time"}
                       /\ r.total_time = total_time(tasks[i].stats)
                       /\ (tasks[i].stats.created_at = None
                              \/ tasks[i].stats.closed_at = None) => r.total_time = None

\* A report of two Tasks, one closed and one still active.
C12_Witness ==
    /\ pc = "tick"
    /\ DOMAIN tasks = IDs
    /\ Cardinality(report) = 2
    /\ \E i, j \in IDs : Running(i) \in report /\ Inactive(j, Some(0)) \in report

(***************************************************************************)
(* C13.  The report phase leaves the task mapping as it was, and a tick    *)
(* whose drain received no event emits the same records as the report      *)
(* before it.                                                              *)
(***************************************************************************)
ReportStep == pc = "drain" /\ pc' = "tick"

C13_ReportIsPureRead ==
    [][ReportStep =>
          /\ tasks' = tasks
          /\ last_drain = "empty" => report' = report]_vars

\* The latest report came from a tick that received nothing and repeats the
\* records of a Task reported before.
C13_Witness ==
    /\ pc = "tick"
    /\ last_drain = "idle"
    /\ report # {}

(***************************************************************************)
(* C14.  An Exit that returns the Task to idle with a time earlier than    *)
(* last_poll contributes nothing: busy_time stays as it was and the        *)
(* Collector goes on draining.                                             *)
(***************************************************************************)
EarlyExit(i) ==
    /\ i \in DOMAIN tasks
    /\ tasks[i].stats.current_polls = 1
    /\ tasks'[i].stats.current_polls = 0
    /\ tasks[i].stats.last_poll # None
    /\ obs'.last < Unwrap(tasks[i].stats.last_poll)

C14_EarlyExitClamped ==
    [][EarlyExit(Obs) =>
          /\ tasks'[Obs].stats.busy_time = tasks[Obs].stats.busy_time
          /\ pc' = "drain"
          /\ rx_alive']_vars

(***************************************************************************)
(* C15.  current_polls never goes below 0 (it neither underflows nor       *)
(* wraps), whatever the queue delivers, and an Exit received for a Task    *)
(* whose current_polls is 0 leaves the Collector draining.                 *)
(***************************************************************************)
UnmatchedExit(e) ==
    /\ e.kind = "Exit"
    /\ e.id \in DOMAIN tasks
    /\ tasks[e.id].stats.current_polls = 0

C15_DepthNeverNegative ==
    /\ [](\A i \in DOMAIN tasks : tasks[i].stats.current_polls >= 0)
    /\ [][(RecvStep /\ UnmatchedExit(Head(queue).ev)) => (pc' = "drain" /\ rx_alive')]_vars

(***************************************************************************)
(* C16.  As stated: whenever the events of the Task came with timestamps   *)
(* that never decrease in receive order and created_at, first_poll,        *)
(* last_poll and closed_at are all set,                                    *)
(* created_at <= first_poll <= last_poll <= closed_at.                     *)
(***************************************************************************)
AllStamped(s) ==
    /\ s.created_at # None
    /\ s.first_poll # None
    /\ s.last_poll # None
    /\ s.closed_at # None

Ordered(s) ==
    /\ Unwrap(s.created_at) <= Unwrap(s.first_poll)
    /\ Unwrap(s.first_poll) <= Unwrap(s.last_poll)
    /\ Unwrap(s.last_poll) <= Unwrap(s.closed_at)

C16_TimestampsOrderedAsStated ==
    (obs.mono /\ Obs \in DOMAIN tasks /\ AllStamped(ObsStats)) => Ordered(ObsStats)

(***************************************************************************)
(* C16, amended.  The same, for sequences in which no Spawn of the id is   *)
(* received after its first Enter and no Enter finds the Task idle after   *)
(* its Close.                                                              *)
(***************************************************************************)
C16_TimestampsOrdered ==
    (obs.mono /\ ~obs.late /\ Obs \in DOMAIN tasks /\ AllStamped(ObsStats))
        => Ordered(ObsStats)

\* A Task created at 0, first polled at 5, polled again from 10 and closed
\* at 10.
C16_Witness ==
    /\ obs.mono
    /\ ~obs.late
    /\ Obs \in DOMAIN tasks
    /\ ObsStats.created_at = Some(0)
    /\ ObsStats.first_poll = Some(5)
    /\ ObsStats.last_poll = Some(10)
    /\ ObsStats.closed_at = Some(10)

(***************************************************************************)
(* C17.  Spawn(id, t, fields) applied to any mapping the Collector can     *)
(* hold: with no Task for id, one is created in the default state but for  *)
(* the given fields, created_at = t and active; with a Task for id, its    *)
(* fields and created_at are overwritten, active is set, and the rest of   *)
(* its statistics is left as it was.  No other Task is changed, and no     *)
(* step of the Collector removes a Task from the mapping.                  *)
(***************************************************************************)
SpawnInputs == {SpawnEvent(i, t, f) : i \in IDs, t \in Times, f \in {"a", "b"}}

\* The statistics a Spawn may not touch.
Kept(stats) == [stats EXCEPT !.created_at = None, !.active = TRUE]

SpawnFrame(ts, e) ==
    LET out == update(ts, e, overflow_checks)
    IN  /\ ~out.panic
        /\ DOMAIN out.tasks = DOMAIN ts \cup {e.id}
        /\ \A i \in DOMAIN ts \ {e.id} : out.tasks[i] = ts[i]
        /\ out.tasks[e.id].fields = e.fields
        /\ out.tasks[e.id].stats.created_at = Some(e.time)
        /\ out.tasks[e.id].stats.active
        /\ Kept(out.tasks[e.id].stats) = Kept(OrDefault(ts, e.id).stats)

\* What the steps of the Collector show of it: a Task that appears is fresh,
\* and a Task whose created_at changes keeps the rest of its statistics.
SpawnSteps ==
    /\ DOMAIN tasks \subseteq DOMAIN tasks'
    /\ \A i \in DOMAIN tasks' \ DOMAIN tasks :
          /\ tasks'[i].fields # DefaultTask.fields
          /\ tasks'[i].stats.active
          /\ tasks'[i].stats.created_at = Some(obs'.last)
          /\ Kept(tasks'[i].stats) = Kept(DefaultStats)
    /\ \A i \in DOMAIN tasks :
          tasks'[i].stats.created_at # tasks[i].stats.created_at =>
              /\ tasks'[i].stats.created_at = Some(obs'.last)
              /\ tasks'[i].stats.active
              /\ Kept(tasks'[i].stats) = Kept(tasks[i].stats)

C17_SpawnFrame ==
    /\ [](\A e \in SpawnInputs : SpawnFrame(tasks, e))
    /\ [][SpawnSteps]_vars

\* A Task that was polled for 5 and closed, then spawned again at 10: its
\* created_at is the new one, its statistics are the old ones.
C17_Witness ==
    /\ Obs \in DOMAIN tasks
    /\ ObsStats.active
    /\ ObsStats.created_at = Some(10)
    /\ ObsStats.first_poll = Some(0)
    /\ ObsStats.closed_at = Some(5)
    /\ ObsStats.busy_time = 5

(***************************************************************************)
(* C18.  The Collector applies the message at the head of the queue and    *)
(* leaves the rest in place (receive order, whatever the timestamps), and  *)
(* the messages of one producer are received in the order of its send      *)
(* calls: the queue holds them in that order, ahead of the one the         *)
(* producer holds a Permit for, and when one is received none of the same  *)
(* producer with an earlier call is still on its way.                      *)
(***************************************************************************)
\* The messages on their way to the Collector behind the first k of the queue.
Behind(k) ==
    {queue[j] : j \in (k + 1)..Len(queue)}
        \cup {reserved[p] : p \in {q \in Producers : reserved[q] # NoPermit}}

PerProducerFifo ==
    \A k \in 1..Len(queue) :
        \A later \in Behind(k) : later.by = queue[k].by => later.n > queue[k].n

HeadApplied ==
    RecvStep =>
        LET msg == Head(queue)
        IN  /\ delivered' = Append(delivered, msg.n)
            /\ tasks' = update(tasks, msg.ev, overflow_checks).tasks
            /\ pc' = "drain" => queue' = Tail(queue)
            /\ \A later \in Behind(1) : later.by = msg.by => later.n > msg.n

C19_FinalReportRuns == pc = "returned" => last_drain # "applied"

(***************************************************************************)
(* C20.  BeeLayer::run does not keep the queue open itself: the layer's    *)
(* Sender is gone once run awaits the Collector, and once the producers    *)
(* have stopped (their send calls used up and finished) run eventually     *)
(* completes.                                                              *)
(***************************************************************************)
ProducersStopped == sent = MaxSends /\ AllIdle

C20_RunReleasesSender ==
    /\ []((driver = "layer" /\ run_state = "pending") => ~tx_alive)
    /\ ((driver = "layer" /\ run_state = "pending" /\ ProducersStopped) ~> RunCompleted)

====
